---- MODULE Spec2Model ----
(***************************************************************************)
(* Model of plugins/show.py (ShowPlugin): live-image resolution for an     *)
(* EDP, decoding of an image's version tags, override merging, and the     *)
(* construction and dispatch of the build request.                         *)
(*                                                                         *)
(* Python str values are sequences of one-character strings, so that       *)
(* split, strip, startswith, slicing, lower and upper are computed.        *)
(* Python None and False are the one-element sequences <<"None">> and      *)
(* <<"False">>, which no str equals.  A dict is a function whose domain is *)
(* its key set; an object is a function from attribute names to values.    *)
(***************************************************************************)
EXTENDS Integers, Sequences, FiniteSets, TLC

VARIABLES settings, op, args, result, said, posts, params, versions, queries

vars == <<settings, op, args, result, said, posts, params, versions, queries>>

\* ------------------------------------------------------------------ bounds
MaxTags == 2
MaxTokens == 2
MaxInstances == 2

\* ------------------------------------------------------------- str layer
None == <<"None">>
False == <<"False">>

LowerChars == <<"a","b","c","d","e","f","g","h","i","j","k","l","m",
                "n","o","p","q","r","s","t","u","v","w","x","y","z">>
UpperChars == <<"A","B","C","D","E","F","G","H","I","J","K","L","M",
                "N","O","P","Q","R","S","T","U","V","W","X","Y","Z">>

lower_char(c) ==
    IF \E i \in 1..26 : UpperChars[i] = c
    THEN LowerChars[CHOOSE i \in 1..26 : UpperChars[i] = c]
    ELSE c

upper_char(c) ==
    IF \E i \in 1..26 : LowerChars[i] = c
    THEN UpperChars[CHOOSE i \in 1..26 : LowerChars[i] = c]
    ELSE c

lower(s) == [i \in 1..Len(s) |-> lower_char(s[i])]

upper(s) == [i \in 1..Len(s) |-> upper_char(s[i])]

startswith(s, prefix) ==
    /\ Len(s) >= Len(prefix)
    /\ SubSeq(s, 1, Len(prefix)) = prefix

slice_from(s, n) == SubSeq(s, n + 1, Len(s))

RECURSIVE split_from(_, _, _, _)
split_from(s, sep, i, cur) ==
    IF i > Len(s) THEN <<cur>>
    ELSE IF s[i] = sep THEN <<cur>> \o split_from(s, sep, i + 1, <<>>)
    ELSE split_from(s, sep, i + 1, Append(cur, s[i]))

\* str.split(sep): every separator cuts, empty parts are kept
split(s, sep) == split_from(s, sep, 1, <<>>)

\* str.split(): cut on runs of whitespace, no empty parts
split_ws(s) == SelectSeq(split(s, " "), LAMBDA p : Len(p) > 0)

RECURSIVE lstrip(_)
lstrip(s) == IF Len(s) > 0 /\ s[1] = " " THEN lstrip(Tail(s)) ELSE s

RECURSIVE rstrip(_)
rstrip(s) ==
    IF Len(s) > 0 /\ s[Len(s)] = " " THEN rstrip(SubSeq(s, 1, Len(s) - 1))
    ELSE s

strip(s) == rstrip(lstrip(s))

\* ------------------------------------------------------------ dict layer
EmptyDict == [k \in {} |-> None]

dict_set(d, k, v) == [x \in (DOMAIN d) \cup {k} |-> IF x = k THEN v ELSE d[x]]

\* ------------------------------------------------------- string literals
version_prefix == <<"v","e","r","s","i","o","n",":">>
version_suffix == <<"_","v","e","r","s","i","o","n">>
configuration == <<"c","o","n","f","i","g","u","r","a","t","i","o","n">>
configuration_secure == configuration \o <<"_","s","e","c","u","r","e">>
master == <<"m","a","s","t","e","r">>

\* --------------------------------------------------------------- Versions
\* Versions.__init__: the configuration ref is stored in the attribute
\* `configurations`.
Versions(configuration_ref, configuration_secure_ref, versions_dict) ==
    [configurations |-> configuration_ref,
     configuration_secure |-> configuration_secure_ref,
     play_versions |-> versions_dict]

hasattr(obj, name) == name \in DOMAIN obj

setattr(obj, name, value) ==
    [a \in (DOMAIN obj) \cup {name} |-> IF a = name THEN value ELSE obj[a]]

NoObject == [none |-> TRUE]

\* --------------------------------------------------------- outcomes
Returned(value) == [exc |-> "none", line |-> 0, value |-> value]

\* ------------------------------------------------------ get_ami_versions
\* (variant: the play-versions key is the component name as it is compared)
get_ami_versions_tag_bare_key(st, tag, value) ==
    IF st.exc # "none" THEN st
    ELSE IF ~startswith(tag, version_prefix) THEN st
    ELSE LET key == strip(slice_from(tag, 8))
             parts == split_ws(value)
         IN IF Len(parts) < 2 THEN [st EXCEPT !.exc = "IndexError", !.line = 183]
            ELSE IF key = configuration
            THEN [st EXCEPT !.configuration_ref = parts[2]]
            ELSE IF key = configuration_secure
            THEN [st EXCEPT !.configuration_secure_ref = parts[2]]
            ELSE [st EXCEPT !.versions_dict =
                    dict_set(dict_set(@, lower(key), parts[2]),
                             upper(key), parts[2])]

\* (variant: the upper-case key is not written)
get_ami_versions_tag_lower_only(st, tag, value) ==
    IF st.exc # "none" THEN st
    ELSE IF ~startswith(tag, version_prefix) THEN st
    ELSE LET key == strip(slice_from(tag, 8))
             parts == split_ws(value)
         IN IF Len(parts) < 2 THEN [st EXCEPT !.exc = "IndexError", !.line = 183]
            ELSE IF key = configuration
            THEN [st EXCEPT !.configuration_ref = parts[2]]
            ELSE IF key = configuration_secure
            THEN [st EXCEPT !.configuration_secure_ref = parts[2]]
            ELSE [st EXCEPT !.versions_dict =
                    dict_set(@, lower(slice_from(tag, 8) \o version_suffix),
                             parts[2])]

\* One iteration of the loop over ami.tags.items(); st carries the locals
\* configuration_ref, configuration_secure_ref, versions_dict and the
\* exception raised so far.
get_ami_versions_tag(st, tag, value) ==
    IF st.exc # "none" THEN st
    ELSE IF ~startswith(tag, version_prefix) THEN st
    ELSE LET key == strip(slice_from(tag, 8))
             parts == split_ws(value)
         IN IF Len(parts) < 2 THEN [st EXCEPT !.exc = "IndexError", !.line = 183]
            ELSE LET shorthash == parts[2]
                 IN IF key = configuration
                    THEN [st EXCEPT !.configuration_ref = shorthash]
                    ELSE IF key = configuration_secure
                    THEN [st EXCEPT !.configuration_secure_ref = shorthash]
                    ELSE LET vkey == slice_from(tag, 8) \o version_suffix
                         IN [st EXCEPT !.versions_dict =
                               dict_set(dict_set(@, lower(vkey), shorthash),
                                        upper(vkey), shorthash)]

RECURSIVE get_ami_versions_loop(_, _)
get_ami_versions_loop(st, items) ==
    IF items = <<>> THEN st
    ELSE get_ami_versions_loop(
             get_ami_versions_tag(st, items[1][1], items[1][2]), Tail(items))

\* amis is the answer of ec2.get_all_images(ami_id): a list of images, each
\* the item list of its tag dict in the dict's iteration order.
get_ami_versions(amis) ==
    IF Len(amis) = 0 THEN [exc |-> "IndexError", line |-> 176, obj |-> NoObject]
    ELSE LET st == get_ami_versions_loop(
                       [configuration_ref |-> None,
                        configuration_secure_ref |-> None,
                        versions_dict |-> EmptyDict,
                        exc |-> "none", line |-> 0], amis[1])
         IN IF st.exc # "none"
            THEN [exc |-> st.exc, line |-> st.line, obj |-> NoObject]
            ELSE [exc |-> "none", line |-> 0,
                  obj |-> Versions(st.configuration_ref,
                                   st.configuration_secure_ref,
                                   st.versions_dict)]

\* ------------------------------------------------------------- messages
Say(text, color, detail) == [text |-> text, color |-> color, detail |-> detail]

\* ---------------------------------------------------------- instance_elbs
\* The iterable handed to instance_elbs is either the list returned by
\* get_all_load_balancers (no filters) or a generator made by an earlier
\* call.  A generator is lazy: it filters its source for the load
\* balancers having instance_id as a member only when it is consumed, and
\* consuming it consumes every generator it was built on.
ResultSet(lbs) == [base |-> lbs, filters |-> <<>>, exhausted |-> FALSE]

instance_elbs(instance_id, elbs) ==
    [elbs EXCEPT !.filters = Append(@, instance_id)]

\* list(generator)
list_of(elbs) ==
    IF elbs.exhausted THEN <<>>
    ELSE SelectSeq(elbs.base,
                   LAMBDA lb : \A i \in 1..Len(elbs.filters) :
                                   elbs.filters[i] \in lb.instances)

consumed(elbs) == [elbs EXCEPT !.exhausted = TRUE]

\* ------------------------------------------------------------ ami_for_edp
RECURSIVE flatten(_)
flatten(reservations) ==
    IF reservations = <<>> THEN <<>>
    ELSE reservations[1] \o flatten(Tail(reservations))

\* body of the loop over the instances of every reservation: elbs is
\* rebound to the new generator, which is consumed only when the instance
\* is running ('and' does not evaluate its right side otherwise).
ami_for_edp_instance(st, instance) ==
    LET elbs == instance_elbs(instance.id, st.elbs)
    IN IF instance.state = "running"
       THEN [elbs |-> consumed(elbs),
             amis |-> IF Len(list_of(elbs)) > 0
                      THEN st.amis \cup {instance.image_id}
                      ELSE st.amis]
       ELSE [elbs |-> elbs, amis |-> st.amis]

RECURSIVE ami_for_edp_loop(_, _)
ami_for_edp_loop(st, instances) ==
    IF instances = <<>> THEN st
    ELSE ami_for_edp_loop(ami_for_edp_instance(st, instances[1]),
                          Tail(instances))

\* reservations: the answer of get_all_instances(filters=edp_filter);
\* lbs: the answer of get_all_load_balancers().
ami_for_edp(edp, reservations, lbs) ==
    LET st == ami_for_edp_loop([elbs |-> ResultSet(lbs), amis |-> {}],
                               flatten(reservations))
    IN IF Cardinality(st.amis) > 1
       THEN [exc |-> "none", line |-> 0, value |-> None,
             said |-> <<Say("Multiple AMIs found", "red", edp)>>]
       ELSE IF st.amis = {}
       THEN [exc |-> "KeyError", line |-> 108, value |-> None, said |-> <<>>]
       ELSE [exc |-> "none", line |-> 0,
             value |-> CHOOSE a \in st.amis : TRUE, said |-> <<>>]

\* ---------------------------------------------- update_from_versions_string
\* (variant: the upper-case key is not written)
update_from_versions_token_lower_only(st, version) ==
    IF st.exc # "none" THEN st
    ELSE LET parts == split(version, "=")
         IN IF Len(parts) # 2
            THEN [st EXCEPT !.exc = "ValueError", !.line = 284]
            ELSE [st EXCEPT !.obj = setattr(@, "play_versions",
                     dict_set(@.play_versions, lower(parts[1]), parts[2]))]

\* var, value = version.split('=') raises ValueError unless the split has
\* exactly two parts.  defaults is mutated in place, so the tokens applied
\* before an exception stay applied.
update_from_versions_token(st, version) ==
    IF st.exc # "none" THEN st
    ELSE LET parts == split(version, "=")
         IN IF Len(parts) # 2
            THEN [st EXCEPT !.exc = "ValueError", !.line = 284]
            ELSE LET var == parts[1]
                     value == parts[2]
                     st1 == [st EXCEPT !.said =
                               Append(@, Say("Overriding", "default", var))]
                 IN IF var = configuration
                    THEN [st1 EXCEPT !.obj = setattr(@, "configuration", value)]
                    ELSE IF var = configuration_secure
                    THEN [st1 EXCEPT !.obj =
                            setattr(@, "configuration_secure", value)]
                    ELSE [st1 EXCEPT !.obj = setattr(@, "play_versions",
                            dict_set(dict_set(@.play_versions, lower(var), value),
                                     upper(var), value))]

RECURSIVE update_from_versions_loop(_, _)
update_from_versions_loop(st, tokens) ==
    IF tokens = <<>> THEN st
    ELSE update_from_versions_loop(update_from_versions_token(st, tokens[1]),
                                   Tail(tokens))

\* versions_string is None or a str; both None and "" are falsy.
update_from_versions_string(defaults, versions_string) ==
    LET st0 == [obj |-> defaults, exc |-> "none", line |-> 0, said |-> <<>>]
    IN IF versions_string = None \/ versions_string = <<>> THEN st0
       ELSE update_from_versions_loop(st0, split_ws(versions_string))

\* ------------------------------------------------- build_ami override loop
build_ami_token(st, version) ==
    IF st.exc # "none" THEN st
    ELSE LET parts == split(version, "=")
         IN IF Len(parts) # 2
            THEN [st EXCEPT !.exc = "ValueError", !.line = 227]
            ELSE LET var == parts[1]
                     value == parts[2]
                 IN IF var = configuration
                    THEN [st EXCEPT !.configuration_ref = value]
                    ELSE IF var = configuration_secure
                    THEN [st EXCEPT !.configuration_secure_ref = value]
                    ELSE [st EXCEPT !.versions_dict =
                            dict_set(dict_set(@, lower(var), value),
                                     upper(var), value)]

\* (variant: the tokens are applied last to first)
RECURSIVE build_ami_loop_reversed(_, _)
build_ami_loop_reversed(st, tokens) ==
    IF tokens = <<>> THEN st
    ELSE build_ami_token(build_ami_loop_reversed(st, Tail(tokens)), tokens[1])

RECURSIVE build_ami_loop(_, _)
build_ami_loop(st, tokens) ==
    IF tokens = <<>> THEN st
    ELSE build_ami_loop(build_ami_token(st, tokens[1]), Tail(tokens))

\* ----------------------------------------------------------- notify_abbey
\* yaml.safe_dump(dict, default_flow_style=False): one "key: value" line per
\* key; the dump is modelled by its set of lines <<key, value>>.
yaml_safe_dump(d) == {<<k, d[k]>> : k \in DOMAIN d}

\* if ami_id: None and the empty string are falsy
truthy(x) == x # None /\ x # <<>>

\* lines 317-321: the base image parameters
notify_abbey_base_blessed(p, ami_id) ==
    IF truthy(ami_id)
    THEN dict_set(dict_set(p, "base_ami", ami_id), "use_blessed", TRUE)
    ELSE dict_set(p, "use_blessed", TRUE)

notify_abbey_base(p, ami_id) ==
    IF truthy(ami_id)
    THEN dict_set(dict_set(p, "base_ami", ami_id), "use_blessed", FALSE)
    ELSE dict_set(p, "use_blessed", TRUE)

\* (variant: a request answered with another status than 200 is sent again)
notify_abbey_post_retry(prm, status) ==
    [posts |-> IF status # 200
               THEN <<[params |-> prm, status_code |-> status],
                      [params |-> prm, status_code |-> status]>>
               ELSE <<[params |-> prm, status_code |-> status]>>,
     said |-> IF status # 200
              THEN <<Say("Sent request got", "red", status)>> ELSE <<>>]

\* lines 343-348: the one requests.post, and the red message when its
\* status code is not 200
notify_abbey_post(prm, status) ==
    [posts |-> <<[params |-> prm, status_code |-> status]>>,
     said |-> IF status # 200
              THEN <<Say("Sent request got", "red", status)>> ELSE <<>>]

\* status is the status code with which the endpoint answers a POST.
\* out carries what the call leaves behind: the outcome, the messages said,
\* the POSTs made and the params dict as far as it was filled.
notify_abbey(stg, env, dep, play, vs, noop, ami_id, verbose, status) ==
    IF "JENKINS_URL" \notin stg
    THEN [exc |-> "none", line |-> 0, value |-> False,
          said |-> <<Say("The JENKINS_URL environment setting needs to be set",
                         "red", None)>>,
          posts |-> <<>>, params |-> EmptyDict]
    ELSE
    LET play_vars == yaml_safe_dump(vs["play_versions"])
        p4 == dict_set(dict_set(dict_set(dict_set(EmptyDict,
                  "play", play), "deployment", dep), "environment", env),
                  "vars", play_vars)
    IN IF ~hasattr(vs, "configuration")
       THEN [exc |-> "AttributeError", line |-> 315, value |-> None,
             said |-> <<>>, posts |-> <<>>, params |-> p4]
       ELSE
       LET p6 == dict_set(dict_set(p4, "configuration", vs["configuration"]),
                          "configuration_secure", vs["configuration_secure"])
           prm == notify_abbey_base(p6, ami_id)
           output == Say("Building ami for", "default",
                         [edp |-> <<env, dep, play>>,
                          base_ami |-> IF verbose /\ truthy(ami_id)
                                       THEN ami_id ELSE None,
                          display_params |->
                              IF verbose
                              THEN dict_set(prm, "vars", vs["play_versions"])
                              ELSE EmptyDict])
       IN IF noop
          THEN [exc |-> "none", line |-> 0, value |-> None,
                said |-> <<output, Say("Would have posted", "default", prm)>>,
                posts |-> <<>>, params |-> prm]
          ELSE LET sent == notify_abbey_post(prm, status)
               IN [exc |-> "none", line |-> 0, value |-> None,
                   said |-> <<output>> \o sent.said,
                   posts |-> sent.posts, params |-> prm]

\* -------------------------------------------------------------- build_ami
\* amis answers ec2.get_all_images(ami_id) and is read only when ami_id is
\* given.  vs in the outcome is the last Versions object the handler made.
build_ami(stg, env, dep, play, versions_str, ami_id, noop, amis, status) ==
    LET hello == <<Say("Let me get what I need to build the ami...",
                       "default", None)>>
        said1 == IF truthy(ami_id)
                 THEN Append(hello, Say("Looking up ami", "default", ami_id))
                 ELSE hello
        looked == IF truthy(ami_id) THEN get_ami_versions(amis)
                  ELSE [exc |-> "none", line |-> 0, obj |-> NoObject]
        Abort(exc, line, sd, vs) ==
            [exc |-> exc, line |-> line, value |-> None, said |-> sd,
             posts |-> <<>>, params |-> EmptyDict, vs |-> vs]
    IN IF looked.exc # "none"
       THEN Abort(looked.exc, looked.line, said1, NoObject)
       ELSE IF truthy(ami_id) /\ ~hasattr(looked.obj, "configuration")
       THEN Abort("AttributeError", 216, said1, looked.obj)
       ELSE
       LET from_ami == truthy(ami_id)
           c0 == IF from_ami THEN looked.obj["configuration"] ELSE None
           cs0 == IF from_ami THEN looked.obj["configuration_secure"] ELSE None
           vd0 == IF from_ami THEN looked.obj["play_versions"] ELSE EmptyDict
           st == build_ami_loop(
                     [configuration_ref |-> IF c0 = None THEN master ELSE c0,
                      configuration_secure_ref |->
                          IF cs0 = None THEN master ELSE cs0,
                      versions_dict |-> vd0, exc |-> "none", line |-> 0],
                     split_ws(versions_str))
       IN IF st.exc # "none"
          THEN Abort(st.exc, st.line, said1,
                     IF from_ami THEN looked.obj ELSE NoObject)
          ELSE LET final_versions == Versions(st.configuration_ref,
                                              st.configuration_secure_ref,
                                              st.versions_dict)
                   r == notify_abbey(stg, env, dep, play, final_versions,
                                     noop, ami_id, FALSE, status)
               IN [exc |-> r.exc, line |-> r.line, value |-> None,
                   said |-> said1 \o r.said, posts |-> r.posts,
                   params |-> r.params, vs |-> final_versions]

\* ----------------------------------------------------------- cut_from_edp
\* positional parameters after self in the def lines
get_ami_versions_params == 2
update_from_versions_string_params == 3

\* lines 258-265: resolve the source EDP and look up its image's versions.
\* The call of line 264 hands get_ami_versions three arguments.
cut_from_edp_source(source, reservations, lbs, amis) ==
    LET hello == <<Say("Let me get what I need to build the ami...",
                       "default", None)>>
        r == ami_for_edp(source, reservations, lbs)
        End(exc, line, vs, proceeds) ==
            [exc |-> exc, line |-> line, value |-> None,
             said |-> hello \o r.said, posts |-> <<>>, params |-> EmptyDict,
             vs |-> vs, proceeds |-> proceeds]
    IN IF r.exc # "none" THEN End(r.exc, r.line, NoObject, FALSE)
       ELSE IF r.value = None THEN End("none", 0, NoObject, FALSE)
       ELSE IF 3 # get_ami_versions_params
       THEN End("TypeError", 264, NoObject, FALSE)
       ELSE LET g == get_ami_versions(amis)
            IN IF g.exc # "none" THEN End(g.exc, g.line, NoObject, FALSE)
               ELSE End("none", 0, g.obj, TRUE)

\* lines 267-278: resolve the destination EDP, merge the overrides into the
\* source's versions and notify with the destination's image as base.  The
\* call of line 274 hands update_from_versions_string two arguments.
cut_from_edp_dest(stg, verbose, noop, dest, version_overrides, src, reservations, lbs, status) ==
    LET r == ami_for_edp(dest, reservations, lbs)
        End(exc, line, sd, vs) ==
            [exc |-> exc, line |-> line, value |-> None,
             said |-> src.said \o r.said \o sd, posts |-> <<>>,
             params |-> EmptyDict, vs |-> vs]
    IN IF r.exc # "none" THEN End(r.exc, r.line, <<>>, src.vs)
       ELSE IF r.value = None THEN End("none", 0, <<>>, src.vs)
       ELSE IF 2 # update_from_versions_string_params
       THEN End("TypeError", 274, <<>>, src.vs)
       ELSE LET u == update_from_versions_string(src.vs, version_overrides)
            IN IF u.exc # "none" THEN End(u.exc, u.line, u.said, u.obj)
               ELSE LET n == notify_abbey(stg, dest[1], dest[2], dest[3],
                                          u.obj, noop, r.value, verbose,
                                          status)
                    IN [exc |-> n.exc, line |-> n.line, value |-> None,
                        said |-> src.said \o r.said \o u.said \o n.said,
                        posts |-> n.posts, params |-> n.params, vs |-> u.obj]

\* ------------------------------------------------------------------ inputs
Edps == {<<"stage", "edx", "edxapp">>, <<"prod", "edge", "worker">>}

ami_1 == <<"a","m","i","-","1">>
ami_2 == <<"a","m","i","-","2">>
ImageIds == {ami_1, ami_2}

InstanceStates == {"running", "stopped"}

Statuses == {200, 500}

SettingsSets == {{}, {"JENKINS_URL"}}

\* sequences over S of length 0..n
SeqsUpTo(S, n) == UNION {[1..k -> S] : k \in 0..n}

\* instance listings: instance i has id i
Fleets == UNION {[1..n -> [state : InstanceStates, image_id : ImageIds]]
                 : n \in 0..MaxInstances}

Instances(fleet) ==
    [i \in 1..Len(fleet) |->
        [id |-> i, state |-> fleet[i].state, image_id |-> fleet[i].image_id]]

\* ways to cut a listing of n instances into non-empty reservations
RECURSIVE Compositions(_)
Compositions(n) ==
    IF n = 0 THEN {<<>>}
    ELSE UNION {{<<k>> \o c : c \in Compositions(n - k)} : k \in 1..n}

RECURSIVE Grouped(_, _)
Grouped(instances, comp) ==
    IF comp = <<>> THEN <<>>
    ELSE <<SubSeq(instances, 1, comp[1])>>
         \o Grouped(SubSeq(instances, comp[1] + 1, Len(instances)), Tail(comp))

Reservations ==
    UNION {{Grouped(Instances(f), c) : c \in Compositions(Len(f))} : f \in Fleets}

MaxLbs == 1

LoadBalancers == SeqsUpTo([name : {"lb"}, instances : SUBSET (1..MaxInstances)],
                          MaxLbs)

tag_a == version_prefix \o <<"a">>
tag_A == version_prefix \o <<"A">>
tag_configuration == version_prefix \o configuration
tag_configuration_secure == version_prefix \o configuration_secure
tag_Name == <<"N","a","m","e">>
VersionTagNames == {tag_a, tag_A, tag_configuration, tag_configuration_secure}

\* version tags whose component name has a blank before or after it
tag_a_padded == tag_a \o <<" ">>
tag_configuration_padded == version_prefix \o <<" ">> \o configuration

\* tag items: version tags with a description and a ref, one version tag
\* whose value has no second token, one tag that is no version tag
TagEntries ==
    (VersionTagNames \X {<<"d"," ","1">>, <<"d"," ","2">>})
    \cup {<<tag_a, <<"d">>>>, <<tag_Name, <<"w","e","b">>>>}
    \cup ({tag_a_padded, tag_configuration_padded} \X {<<"d"," ","2">>})

\* item lists of tag dicts: no tag name twice, any iteration order
TagItems ==
    {t \in SeqsUpTo(TagEntries, MaxTags) :
        \A i, j \in 1..Len(t) : i # j => t[i][1] # t[j][1]}

\* answers of get_all_images: no image, or the one image
ImageAnswers == {<<>>} \cup {<<t>> : t \in TagItems}

tok(key, value) == key \o <<"=">> \o value

OverrideKeys == {<<"a">>, <<"A">>, configuration, configuration_secure}

\* tokens the command patterns ( \w*=\S*)* let through
CommandTokens ==
    ({tok(k, v) : k \in OverrideKeys, v \in {<<"1">>, <<"2">>}}
        \ {tok(<<"A">>, <<"1">>)})
    \cup {tok(<<"a">>, <<"1","=","2">>)}

\* tokens a direct caller of update_from_versions_string can hand over
AnyTokens == CommandTokens \cup {<<"a">>}

RECURSIVE spaced(_)
spaced(tokens) ==
    IF tokens = <<>> THEN <<>>
    ELSE <<" ">> \o tokens[1] \o spaced(Tail(tokens))

VersionStrings(T) == {spaced(ts) : ts \in SeqsUpTo(T, MaxTokens)}

\* the override texts per caller
CommandStrings == VersionStrings(CommandTokens)
AnyStrings == VersionStrings(AnyTokens)

\* ------------------------------------------------------------------ state
\* settings : the names set in will.settings
\* op, args : the method or command last run and its inputs
\* result   : how it ended: [exc, line, value]
\* said     : the messages it said, in order
\* posts    : the POSTs it sent to the endpoint, with the status answered
\* params   : the params dict of notify_abbey as far as it was filled
\* versions : the Versions object it made or mutated last
\* queries  : the calls it made to the inventory (boto), in order
Idle ==
    /\ op = "idle"
    /\ args = [none |-> TRUE]
    /\ result = Returned(None)
    /\ said = <<>>
    /\ posts = <<>>
    /\ params = EmptyDict
    /\ versions = NoObject
    /\ queries = <<>>

Init ==
    /\ settings \in SettingsSets
    /\ Idle

Outcome(out) ==
    /\ result' = [exc |-> out.exc, line |-> out.line, value |-> out.value]
    /\ said' = out.said
    /\ posts' = out.posts
    /\ params' = out.params
    /\ UNCHANGED settings

\* ---------------------------------------------------- inventory queries
\* ami_for_edp lists the load balancers (line 85), then the instances
\* (line 92), before anything can end it.
ami_for_edp_queries == <<"get_all_load_balancers", "get_all_instances">>

\* get_ami_versions asks for the image (line 176) first of all.
get_ami_versions_queries == <<"get_all_images">>

\* ------------------------------------------------------- command handlers
\* A handler's inputs are the groups of its command pattern and the answers
\* of the gateway; args records the flags and EDPs of the command, and an
\* answer or the override text once the handler reads it.

\* whether build_ami comes to its override loop (line 226)
build_ami_reads_versions(ami_id, amis) ==
    \/ ~truthy(ami_id)
    \/ /\ get_ami_versions(amis).exc = "none"
       /\ hasattr(get_ami_versions(amis).obj, "configuration")

BuildAmi ==
    /\ op = "idle"
    /\ \E edp \in Edps, ami_id \in {None, ami_1}, noop \in BOOLEAN :
        \E amis \in (IF truthy(ami_id) THEN ImageAnswers ELSE {<<>>}) :
        \E versions_str \in (IF build_ami_reads_versions(ami_id, amis)
                             THEN CommandStrings ELSE {<<>>}),
           status \in Statuses :
          LET out == build_ami(settings, edp[1], edp[2], edp[3], versions_str,
                               ami_id, noop, amis, status)
              a == [edp |-> edp, ami_id |-> ami_id, noop |-> noop]
              a1 == IF truthy(ami_id) THEN a @@ [amis |-> amis] ELSE a
          IN /\ op' = "build_ami"
             /\ args' = IF build_ami_reads_versions(ami_id, amis)
                        THEN a1 @@ [versions |-> versions_str] ELSE a1
             /\ versions' = out.vs
             /\ queries' = IF truthy(ami_id) THEN get_ami_versions_queries
                           ELSE <<>>
             /\ Outcome(out)

\* whether line 264 is reached and its call binds, so that the image is read
cut_from_edp_looks_up(source, reservations, lbs) ==
    LET r == ami_for_edp(source, reservations, lbs)
    IN r.exc = "none" /\ r.value # None /\ 3 = get_ami_versions_params

CutFromEdp ==
    /\ op = "idle"
    /\ \E verbose \in BOOLEAN, noop \in BOOLEAN, dest \in Edps,
          reservations \in Reservations, lbs \in LoadBalancers :
        \E source \in Edps \ {dest} :
        \E amis \in (IF cut_from_edp_looks_up(source, reservations, lbs)
                     THEN ImageAnswers ELSE {<<>>}) :
          LET src == cut_from_edp_source(source, reservations, lbs, amis)
              a == [verbose |-> verbose, noop |-> noop, dest |-> dest,
                    source |-> source, reservations |-> reservations,
                    lbs |-> lbs]
              a1 == IF cut_from_edp_looks_up(source, reservations, lbs)
                    THEN a @@ [amis |-> amis] ELSE a
              q1 == IF cut_from_edp_looks_up(source, reservations, lbs)
                    THEN ami_for_edp_queries \o get_ami_versions_queries
                    ELSE ami_for_edp_queries
          IN /\ op' = "cut_from_edp"
             /\ IF ~src.proceeds
                THEN /\ args' = a1
                     /\ versions' = src.vs
                     /\ queries' = q1
                     /\ Outcome(src)
                ELSE \E dest_reservations \in Reservations,
                        dest_lbs \in LoadBalancers, status \in Statuses,
                        version_overrides \in
                            {None} \cup CommandStrings :
                       LET out == cut_from_edp_dest(settings, verbose, noop,
                                      dest, version_overrides, src,
                                      dest_reservations, dest_lbs, status)
                       IN /\ args' = a1 @@
                                [dest_reservations |-> dest_reservations,
                                 dest_lbs |-> dest_lbs,
                                 version_overrides |-> version_overrides]
                          /\ versions' = out.vs
                          /\ queries' = q1 \o ami_for_edp_queries
                          /\ Outcome(out)

\* ------------------------------------------------- methods called directly
AmiForEdp ==
    /\ op = "idle"
    /\ \E edp \in Edps, reservations \in Reservations, lbs \in LoadBalancers :
          LET r == ami_for_edp(edp, reservations, lbs)
          IN /\ op' = "ami_for_edp"
             /\ args' = [edp |-> edp, reservations |-> reservations,
                         lbs |-> lbs]
             /\ versions' = NoObject
             /\ queries' = ami_for_edp_queries
             /\ Outcome(r @@ [posts |-> <<>>, params |-> EmptyDict])

GetAmiVersions ==
    /\ op = "idle"
    /\ \E amis \in ImageAnswers :
          LET g == get_ami_versions(amis)
          IN /\ op' = "get_ami_versions"
             /\ args' = [amis |-> amis]
             /\ versions' = g.obj
             /\ queries' = get_ami_versions_queries
             /\ Outcome([exc |-> g.exc, line |-> g.line, value |-> None,
                         said |-> <<>>, posts |-> <<>>, params |-> EmptyDict])

\* the Versions objects get_ami_versions returns
DecodedVersions ==
    {get_ami_versions(amis).obj :
        amis \in {x \in ImageAnswers : get_ami_versions(x).exc = "none"}}

\* the Versions objects update_from_versions_string returns for them
UpdatedVersions ==
    LET calls == {update_from_versions_string(d, str) :
                     d \in DecodedVersions, str \in {None} \cup AnyStrings}
    IN {u.obj : u \in {c \in calls : c.exc = "none"}}

\* applied to an object get_ami_versions returned
UpdateFromVersionsString ==
    /\ op = "idle"
    /\ \E defaults \in DecodedVersions,
          versions_string \in {None} \cup AnyStrings :
          LET u == update_from_versions_string(defaults, versions_string)
          IN /\ op' = "update_from_versions_string"
             /\ args' = [defaults |-> defaults,
                         versions_string |-> versions_string]
             /\ versions' = u.obj
             /\ queries' = <<>>
             /\ Outcome([exc |-> u.exc, line |-> u.line, value |-> None,
                         said |-> u.said, posts |-> <<>>,
                         params |-> EmptyDict])

\* applied to an object update_from_versions_string returned
NotifyAbbey ==
    /\ op = "idle"
    /\ \E vs \in UpdatedVersions, edp \in Edps, noop \in BOOLEAN,
          ami_id \in {None, ami_1}, verbose \in BOOLEAN, status \in Statuses :
          LET n == notify_abbey(settings, edp[1], edp[2], edp[3], vs,
                                noop, ami_id, verbose, status)
          IN /\ op' = "notify_abbey"
             /\ args' = [edp |-> edp, versions |-> vs, noop |-> noop,
                         ami_id |-> ami_id, verbose |-> verbose]
             /\ versions' = vs
             /\ queries' = <<>>
             /\ Outcome(n)

\* --------------------------------------------------------- specifications
\* the chat commands
Next == CutFromEdp \/ BuildAmi

Spec == Init /\ [][Next]_vars

\* the resolver called on its own
NextResolver == AmiForEdp

SpecResolver == Init /\ [][NextResolver]_vars

\* the plugin's methods called one after the other on one Versions object
NextMethods == GetAmiVersions \/ UpdateFromVersionsString \/ NotifyAbbey

SpecMethods == Init /\ [][NextMethods]_vars

\* everything that decodes tags or merges overrides
NextVersions == BuildAmi \/ GetAmiVersions \/ UpdateFromVersionsString

SpecVersions == Init /\ [][NextVersions]_vars

\* ============================================================== claims
Range(f) == {f[i] : i \in DOMAIN f}

IsCommand == op \in {"build_ami", "cut_from_edp"}

\* the image ids of the listed instances that are running and a member of
\* at least one load balancer
LiveImages(reservations, lbs) ==
    {i.image_id : i \in {x \in Range(flatten(reservations)) :
        /\ x.state = "running"
        /\ \E k \in 1..Len(lbs) : x.id \in lbs[k].instances}}

SaidAnyRed == \E i \in 1..Len(said) : said[i].color = "red"

\* build_ami got as far as making final_versions (line 236)
BuiltFinalVersions ==
    op = "build_ami" /\ result.line \notin {176, 183, 216, 227}

\* the override text the last call read
OverrideString ==
    IF op = "build_ami" /\ "versions" \in DOMAIN args THEN args.versions
    ELSE IF op = "cut_from_edp" /\ "version_overrides" \in DOMAIN args
            /\ args.version_overrides # None
    THEN args.version_overrides
    ELSE IF op = "update_from_versions_string" /\ args.versions_string # None
    THEN args.versions_string
    ELSE <<>>

OverrideTokens == split_ws(OverrideString)

RECURSIVE split_each(_)
split_each(tokens) ==
    IF tokens = <<>> THEN <<>>
    ELSE <<split(tokens[1], "=")>> \o split_each(Tail(tokens))

\* the tokens, each split on '='
OverridePairs == split_each(OverrideTokens)

IsReserved(var) == var \in {configuration, configuration_secure}

\* tokens with the variables v and w write the same entry of the version set
SameEntry(v, w) ==
    IF IsReserved(v) \/ IsReserved(w) THEN v = w ELSE lower(v) = lower(w)

\* the override loop ran to its end, leaving its result in versions
OverridesApplied ==
    \/ BuiltFinalVersions
    \/ op = "update_from_versions_string" /\ result.exc = "none"

\* the version set holds value where a token with variable var writes:
\* build_ami hands its configuration ref to Versions(),
\* update_from_versions_string sets the attribute configuration
HoldsValue(var, value) ==
    IF var = configuration
    THEN IF op = "build_ami" THEN versions["configurations"] = value
         ELSE hasattr(versions, "configuration")
              /\ versions["configuration"] = value
    ELSE IF var = configuration_secure
    THEN versions["configuration_secure"] = value
    ELSE /\ lower(var) \in DOMAIN versions["play_versions"]
         /\ upper(var) \in DOMAIN versions["play_versions"]
         /\ versions["play_versions"][lower(var)] = value
         /\ versions["play_versions"][upper(var)] = value

\* the last of the pairs that writes the entry of pairs[i]
LastWriter(pairs, i) ==
    CHOOSE j \in i..Len(pairs) :
        /\ SameEntry(pairs[i][1], pairs[j][1])
        /\ \A k \in (j + 1)..Len(pairs) : ~SameEntry(pairs[i][1], pairs[k][1])

\* C1: when the live instances of the EDP (running and behind a load
\* balancer) all share one image id, ami_for_edp returns that image id,
\* whatever the order and grouping of the listing.
C1_UniqueLiveImageReturned ==
    (op = "ami_for_edp"
        /\ Cardinality(LiveImages(args.reservations, args.lbs)) = 1)
    => (result.exc = "none"
        /\ result.value \in LiveImages(args.reservations, args.lbs))

\* C2: when the live instances of the source EDP span two or more image
\* ids, cut_from_edp ends normally with the red "Multiple AMIs found"
\* message naming the EDP, and sends no build request.
C2_AmbiguousLiveImageSignalled ==
    (op = "cut_from_edp"
        /\ Cardinality(LiveImages(args.reservations, args.lbs)) >= 2)
    => (/\ result.exc = "none"
        /\ \E i \in 1..Len(said) :
              /\ said[i].text = "Multiple AMIs found"
              /\ said[i].color = "red"
              /\ said[i].detail = args.source
        /\ posts = <<>>)

\* C3: when the source EDP has no live instance, cut_from_edp reports it and
\* ends without an exception and without sending a build request.
C3_NoLiveImageReported ==
    (op = "cut_from_edp" /\ LiveImages(args.reservations, args.lbs) = {})
    => (result.exc = "none" /\ SaidAnyRed /\ posts = <<>>)

\* C4: a command run with noop never POSTs; a command run without noop
\* whose version set was resolved POSTs exactly once.  (The second half is
\* stated for build_ami with the endpoint setting present.)
C4_PostsOncePerResolution ==
    (IsCommand /\ args.noop => Len(posts) = 0)
    /\ (BuiltFinalVersions /\ ~args.noop /\ "JENKINS_URL" \in settings
            => Len(posts) = 1)

\* what C5 says of the request, once both EDPs have been resolved
CutFromEdpRequestAsClaimed ==
    LET src == get_ami_versions(args.amis).obj
        pairs == OverridePairs
        Overridden(k) ==
            \E i \in 1..Len(pairs) :
                ~IsReserved(pairs[i][1]) /\ lower(pairs[i][1]) = lower(k)
    IN /\ "base_ami" \in DOMAIN params
       /\ params["base_ami"] \in
              LiveImages(args.dest_reservations, args.dest_lbs)
       /\ params["use_blessed"] = FALSE
       /\ (\A i \in 1..Len(pairs) : pairs[i][1] # configuration)
              => params["configuration"] = src["configurations"]
       /\ \A k \in DOMAIN src["play_versions"] :
              ~Overridden(k) => <<k, src["play_versions"][k]>> \in params["vars"]
       /\ \A i \in 1..Len(pairs) :
              ~IsReserved(pairs[i][1]) =>
                  LET value == pairs[LastWriter(pairs, i)][2]
                  IN /\ <<lower(pairs[i][1]), value>> \in params["vars"]
                     /\ <<upper(pairs[i][1]), value>> \in params["vars"]

\* C5: when the source EDP has a unique live image, cut_from_edp goes on to
\* resolve the destination EDP, and when that has a unique live image too
\* the request has base_ami = the destination's live image, use_blessed =
\* false, the configuration ref and play versions decoded from the source's
\* image, and each override's value under the lower- and the upper-case key.
C5_CutFromEdpRequest ==
    (op = "cut_from_edp" /\ "JENKINS_URL" \in settings
        /\ Cardinality(LiveImages(args.reservations, args.lbs)) = 1)
    => (/\ "dest_reservations" \in DOMAIN args
        /\ Cardinality(LiveImages(args.dest_reservations, args.dest_lbs)) = 1
             => CutFromEdpRequestAsClaimed)

CaseDuplicated(d) ==
    \A k \in DOMAIN d :
        /\ lower(k) \in DOMAIN d
        /\ upper(k) \in DOMAIN d
        /\ d[lower(k)] = d[upper(k)]

\* C6: every play-versions map decoded from tags or left by a sequence of
\* overrides holds each of its keys in lower and in upper case, with one
\* value.
C6_CaseDuplication ==
    versions # NoObject => CaseDuplicated(versions["play_versions"])

\* overrides were merged into a decoded map that already had entries, and
\* the result holds keys from the tags and from the overrides
C6_Witness ==
    /\ op = "update_from_versions_string"
    /\ result.exc = "none"
    /\ DOMAIN args.defaults["play_versions"] # {}
    /\ DOMAIN versions["play_versions"]
           # DOMAIN args.defaults["play_versions"]

\* C7: once the override loop has run, each entry written by the tokens
\* holds the value of the last token that writes it.
C7_LastTokenWins ==
    OverridesApplied =>
        LET pairs == OverridePairs
        IN \A i \in 1..Len(pairs) :
              HoldsValue(pairs[i][1], pairs[LastWriter(pairs, i)][2])

\* two tokens wrote one entry with different values
C7_Witness ==
    /\ OverridesApplied
    /\ LET pairs == OverridePairs
       IN \E i, j \in 1..Len(pairs) :
             /\ i < j
             /\ SameEntry(pairs[i][1], pairs[j][1])
             /\ pairs[i][2] # pairs[j][2]

\* C8: when a token of the override list has no '=', the error is
\* reported, none of the tokens is applied and no build request is sent.
C8_MalformedOverrideRejected ==
    (op = "update_from_versions_string"
        /\ \E i \in 1..Len(OverridePairs) : Len(OverridePairs[i]) = 1)
    => (SaidAnyRed /\ versions = args.defaults /\ posts = <<>>)

\* C9: in every build request, use_blessed is true exactly when no base
\* image id was supplied, and base_ami is present exactly when use_blessed
\* is false, and is then the supplied id.
C9_UseBlessedIffNoBase ==
    (op = "notify_abbey" /\ "configuration" \in DOMAIN params)
    => (/\ "use_blessed" \in DOMAIN params
        /\ params["use_blessed"] = (args.ami_id = None)
        /\ ("base_ami" \in DOMAIN params) = (params["use_blessed"] = FALSE)
        /\ "base_ami" \in DOMAIN params => params["base_ami"] = args.ami_id
        /\ \A i \in 1..Len(posts) : posts[i].params = params)

\* a request with a base image was posted
C9_Witness ==
    /\ op = "notify_abbey"
    /\ Len(posts) = 1
    /\ "base_ami" \in DOMAIN posts[1].params

\* the base image has a version tag for key
TagSets(key) ==
    /\ "amis" \in DOMAIN args
    /\ Len(args.amis) > 0
    /\ \E i \in 1..Len(args.amis[1]) : args.amis[1][i][1] = version_prefix \o key

\* an override token names key
OverrideSets(key) ==
    \E i \in 1..Len(OverridePairs) : OverridePairs[i][1] = key

\* C10: in every request a build command builds, configuration and
\* configuration_secure are set and not None, and are 'master' when neither
\* the base image's tags nor an override sets them.  (Stated for build_ami:
\* a request is being built once notify_abbey has put play into params.)
C10_ConfigurationDefaults ==
    (op = "build_ami" /\ "play" \in DOMAIN params)
    => \A key \in {configuration, configuration_secure} :
          LET name == IF key = configuration THEN "configuration"
                      ELSE "configuration_secure"
          IN /\ name \in DOMAIN params
             /\ params[name] # None
             /\ (~TagSets(key) /\ ~OverrideSets(key)) => params[name] = master

\* the ConfigurationMissing reports said by the last call
ConfigurationMissingReports ==
    {i \in 1..Len(said) :
        /\ said[i].text = "The JENKINS_URL environment setting needs to be set"
        /\ said[i].color = "red"}

\* C11: when JENKINS_URL is not set, a build command that has inventory to
\* query (build_ami with an explicit image, or cut_from_edp) says the
\* ConfigurationMissing report exactly once and has made no inventory query
\* (no image lookup, no instance listing, no load-balancer listing).
C11_ConfigurationMissingFirst ==
    (/\ IsCommand
     /\ "JENKINS_URL" \notin settings
     /\ op = "build_ami" => truthy(args.ami_id))
    => (Cardinality(ConfigurationMissingReports) = 1 /\ queries = <<>>)

\* the dispatch failure reports said by the last call
DispatchFailureReports ==
    {i \in 1..Len(said) :
        said[i].text = "Sent request got" /\ said[i].color = "red"}

\* C12: a call that sent a request to the endpoint sent it exactly once and
\* raised no exception; when the status answered is not 200 it said one
\* dispatch failure report, naming that status, and when the status is 200
\* it said no failure report at all.
C12_DispatchFailureReported ==
    posts # <<>>
    => (/\ Len(posts) = 1
        /\ result.exc = "none"
        /\ ~args.noop
        /\ IF posts[1].status_code # 200
           THEN /\ Cardinality(DispatchFailureReports) = 1
                /\ \A i \in DispatchFailureReports :
                       said[i].detail = posts[1].status_code
           ELSE ~SaidAnyRed)

\* the endpoint answered a request with a status other than 200
C12_Witness ==
    /\ op = "notify_abbey"
    /\ Len(posts) = 1
    /\ posts[1].status_code = 500
    /\ DispatchFailureReports # {}

\* get_ami_versions decoded the tags of the image and returned
Decoded == op = "get_ami_versions" /\ result.exc = "none"

\* the component names (the text after 'version:') of the image's version
\* tags that are neither configuration nor configuration_secure
PlayTagNames ==
    {slice_from(t[1], 8) :
        t \in {x \in Range(args.amis[1]) :
                 /\ startswith(x[1], version_prefix)
                 /\ ~IsReserved(strip(slice_from(x[1], 8)))}}

\* C13 as stated: the decoded play-versions map has exactly 2n entries for
\* the n version tags that are neither configuration nor
\* configuration_secure, also when two tag names differ only in letter case.
C13_TwoEntriesPerTag ==
    Decoded =>
        Cardinality(DOMAIN versions["play_versions"])
            = 2 * Cardinality(PlayTagNames)

\* C13 amended: the decoded play-versions map has exactly 2m entries, m
\* being the number of component names of those tags that are distinct
\* when letter case is ignored; a tag without the prefix adds no entry.
C13_TwoEntriesPerFoldedName ==
    Decoded =>
        Cardinality(DOMAIN versions["play_versions"])
            = 2 * Cardinality({lower(k) : k \in PlayTagNames})

\* an image with two version tags whose names differ only in letter case
C13_Witness ==
    /\ Decoded
    /\ Cardinality(PlayTagNames) = 2
    /\ Cardinality({lower(k) : k \in PlayTagNames}) = 1

\* the version tags of the decoded image, in the iteration order of its tags
VersionTags ==
    SelectSeq(args.amis[1], LAMBDA t : startswith(t[1], version_prefix))

\* <k> of a tag 'version:<k>', as the code compares it
TagKey(tag) == strip(slice_from(tag, 8))

\* <ref> of a tag value '<description> <ref>'
TagRef(value) == split_ws(value)[2]

\* the entry a version tag writes: a reserved name, or the lower-case
\* play-versions key
TagTarget(tag) ==
    IF IsReserved(TagKey(tag)) THEN TagKey(tag)
    ELSE lower(slice_from(tag, 8) \o version_suffix)

\* no later tag of the image writes the entry tag i writes
IsLastTagWriter(tags, i) ==
    \A j \in (i + 1)..Len(tags) : TagTarget(tags[j][1]) # TagTarget(tags[i][1])

\* C14 as stated: a tag version:configuration sets the configuration ref,
\* a tag version:configuration_secure the configuration-secure ref, neither
\* adds a play-versions entry, and a tag version:<k> for another k puts
\* <ref> under the lower- and the upper-case form of k itself.
C14_RoutedUnderBareKey ==
    Decoded =>
        LET tags == VersionTags
            pv == versions["play_versions"]
        IN /\ \A i \in 1..Len(tags) :
                  LET k == TagKey(tags[i][1])
                      ref == TagRef(tags[i][2])
                  IN IF k = configuration
                     THEN versions["configurations"] = ref
                     ELSE IF k = configuration_secure
                     THEN versions["configuration_secure"] = ref
                     ELSE /\ lower(k) \in DOMAIN pv
                          /\ upper(k) \in DOMAIN pv
                          /\ pv[lower(k)] = ref
                          /\ pv[upper(k)] = ref
           /\ \A key \in DOMAIN pv :
                  \E i \in 1..Len(tags) :
                      /\ ~IsReserved(TagKey(tags[i][1]))
                      /\ key \in {lower(TagKey(tags[i][1])),
                                  upper(TagKey(tags[i][1]))}

\* C14 amended: of the tags that write one entry the last one counts.  For
\* such a tag version:<k>, with k stripped of blanks: if k is configuration
\* the configuration ref handed to Versions() is <ref>, if k is
\* configuration_secure the configuration-secure ref is <ref>, and neither
\* adds a play-versions entry; for another k the play-versions map holds
\* <ref> under the lower- and the upper-case form of the text after
\* 'version:' followed by '_version'.  The map has no other keys.
C14_RoutedUnderVersionKey ==
    Decoded =>
        LET tags == VersionTags
            pv == versions["play_versions"]
        IN /\ \A i \in 1..Len(tags) :
                  IsLastTagWriter(tags, i) =>
                      LET k == TagKey(tags[i][1])
                          vkey == slice_from(tags[i][1], 8) \o version_suffix
                          ref == TagRef(tags[i][2])
                      IN IF k = configuration
                         THEN versions["configurations"] = ref
                         ELSE IF k = configuration_secure
                         THEN versions["configuration_secure"] = ref
                         ELSE /\ lower(vkey) \in DOMAIN pv
                              /\ upper(vkey) \in DOMAIN pv
                              /\ pv[lower(vkey)] = ref
                              /\ pv[upper(vkey)] = ref
           /\ \A key \in DOMAIN pv :
                  \E i \in 1..Len(tags) :
                      LET vkey == slice_from(tags[i][1], 8) \o version_suffix
                      IN /\ ~IsReserved(TagKey(tags[i][1]))
                         /\ key \in {lower(vkey), upper(vkey)}

\* an image with a configuration tag and a tag for another component
C14_Witness ==
    /\ Decoded
    /\ \E i, j \in 1..Len(VersionTags) :
          /\ TagKey(VersionTags[i][1]) = configuration
          /\ ~IsReserved(TagKey(VersionTags[j][1]))
    /\ versions["configurations"] # None
    /\ DOMAIN versions["play_versions"] # {}

\* a token cut once, at its first '=': the text before it and the text
\* after it
CutOnce(token) ==
    LET key == split(token, "=")[1]
    IN <<key, slice_from(token, Len(key) + 1)>>

\* C15: when every override token has an '=', the override loop runs to its
\* end, also over a token with more than one '=' (a=1=2), and each entry
\* holds what follows the first '=' of the last token that writes it.
C15_TokenSplitOnce ==
    (/\ op \in {"build_ami", "update_from_versions_string"}
     /\ OverrideTokens # <<>>
     /\ \A i \in 1..Len(OverridePairs) : Len(OverridePairs[i]) >= 2)
    => (/\ OverridesApplied
        /\ LET tokens == OverrideTokens
           IN \A i \in 1..Len(tokens) :
                 (\A j \in (i + 1)..Len(tokens) :
                     ~SameEntry(CutOnce(tokens[i])[1], CutOnce(tokens[j])[1]))
                 => HoldsValue(CutOnce(tokens[i])[1], CutOnce(tokens[i])[2]))

====
